---------------------------- MODULE Spec2Model ----------------------------
(***************************************************************************)
(* Metadata extraction pipeline of chrono-metadata-forensics.              *)
(*                                                                         *)
(*   src/app.py  the Flask upload endpoint (upload_file) and the           *)
(*               orchestrator extract_metadata with its helpers            *)
(*   src/art.py  the interactive CLI script: existence check,              *)
(*               get_file_info, extension dispatch, generate_hashes,       *)
(*               report                                                    *)
(*                                                                         *)
(* Strings that the code takes apart (paths, extensions, filenames) are    *)
(* sequences of one-character strings.  A Python exception is a value      *)
(* [exc |-> name] returned in place of the result; try/except turns it     *)
(* into the value the handler returns, and a caller without a handler      *)
(* hands it on.                                                            *)
(***************************************************************************)
EXTENDS Naturals, Sequences, FiniteSets, TLC

\* Longest file content of the model, in bytes.
MaxLen == 1
\* How many times the external owner of a file deletes it during a run.
MaxDeletes == 1

Procs == {1, 2}

---------------------------------------------------------------------------
(* Values: Python str, dict and exceptions                                 *)

\* A Python str value; parts are the pieces of an f-string.
Str(parts) == [str |-> parts]
\* A Python dict value.
Map(m) == [map |-> m]
IsStr(v) == DOMAIN v = {"str"}
IsMap(v) == DOMAIN v = {"map"}
\* A raised exception in place of a result.
Raise(e) == [exc |-> e]
IsRaised(v) == DOMAIN v = {"exc"}
\* None
None == [none |-> TRUE]
EmptyDict == [k \in {} |-> None]
Keys(v) == DOMAIN v.map

---------------------------------------------------------------------------
(* Character strings                                                       *)

LowerTable ==
    [A |-> "a", C |-> "c", D |-> "d", F |-> "f", G |-> "g", J |-> "j", P |-> "p"]

\* str.lower() on one character
LowerChar(c) == IF c \in DOMAIN LowerTable THEN LowerTable[c] ELSE c

\* str.lower()
Lower(s) == [i \in 1..Len(s) |-> LowerChar(s[i])]

\* Largest index of character c in s, 0 when absent (str.rfind + 1)
RFind(s, c) ==
    LET hits == {i \in 1..Len(s) : s[i] = c}
    IN IF hits = {} THEN 0 ELSE CHOOSE i \in hits : \A j \in hits : j <= i

\* os.path.splitext(p)[1]: the text from the last dot of the last path
\* component, unless that component holds only leading dots before it.
SplitExt(p) ==
    LET sepIndex == RFind(p, "/")
        dotIndex == RFind(p, ".")
    IN IF dotIndex > sepIndex
          /\ \E i \in (sepIndex + 1)..(dotIndex - 1) : p[i] # "."
       THEN SubSeq(p, dotIndex, Len(p))
       ELSE <<>>

\* os.path.join(folder, name)
PathJoin(folder, name) == folder \o <<"/">> \o name

UPLOAD_FOLDER == <<"u">>

---------------------------------------------------------------------------
(* werkzeug.utils.secure_filename, as called at app.py line 146            *)

SafeChars == {"a", "b", "c", "d", "f", "g", "h", "j", "l", "m", "p", "t",
              "A", "C", "D", "F", "G", "J", "P", ".", "_", "-"}

\* filename.replace(os.sep, " ")
ReplaceSep(s) == [i \in 1..Len(s) |-> IF s[i] = "/" THEN " " ELSE s[i]]

RECURSIVE JoinWords(_, _)
\* "_".join(s.split()): runs of blanks between words become one "_",
\* leading and trailing blanks go.  started: a word has been written.
JoinWords(s, started) ==
    IF s = <<>> THEN <<>>
    ELSE IF Head(s) = " "
         THEN IF started /\ Len(s) >= 2 /\ s[2] # " "
              THEN <<"_">> \o JoinWords(Tail(s), TRUE)
              ELSE JoinWords(Tail(s), started)
         ELSE <<Head(s)>> \o JoinWords(Tail(s), TRUE)

\* _filename_ascii_strip_re.sub("", s): drop every character outside
\* [A-Za-z0-9_.-]
AsciiStrip(s) == SelectSeq(s, LAMBDA c : c \in SafeChars)

RECURSIVE LStrip(_)
LStrip(s) ==
    IF s # <<>> /\ Head(s) \in {".", "_"} THEN LStrip(Tail(s)) ELSE s

RECURSIVE RStrip(_)
RStrip(s) ==
    IF s # <<>> /\ s[Len(s)] \in {".", "_"}
    THEN RStrip(SubSeq(s, 1, Len(s) - 1)) ELSE s

\* str.strip("._")
StripDots(s) == RStrip(LStrip(s))

secure_filename(s) == StripDots(AsciiStrip(JoinWords(ReplaceSep(s), FALSE)))

---------------------------------------------------------------------------
(* Files and the operating system calls the code makes                     *)

Bytes == {0, 1}
\* File contents: every byte string of at most MaxLen bytes, the empty one
\* included.
Contents == UNION {[1..n -> Bytes] : n \in 0..MaxLen}

\* A file: its bytes, and whether open(path, "rb") succeeds on it (it does
\* not on a file without read permission).
Files == [data : Contents, readable : BOOLEAN]

\* The file system is a function from the paths that exist to their files.
Exists(fsys, path) == path \in DOMAIN fsys

\* os.stat(path)
os_stat(fsys, path) ==
    IF ~Exists(fsys, path) THEN Raise("FileNotFoundError")
    ELSE [st_size  |-> Len(fsys[path].data),
          st_ctime |-> "ctime", st_mtime |-> "mtime", st_atime |-> "atime",
          st_mode  |-> "mode",  st_uid   |-> "uid",   st_gid   |-> "gid"]

\* open(path, "rb").read()
ReadBytes(fsys, path) ==
    IF ~Exists(fsys, path) THEN Raise("FileNotFoundError")
    ELSE IF ~fsys[path].readable THEN Raise("PermissionError")
    ELSE [bytes |-> fsys[path].data]

\* os.remove(path) applied to the file system
Removed(fsys, path) == [q \in DOMAIN fsys \ {path} |-> fsys[q]]

\* file.save(path): the file system with the uploaded bytes at path
Saved(fsys, path, data) ==
    [q \in DOMAIN fsys \cup {path} |->
        IF q = path THEN [data |-> data, readable |-> TRUE] ELSE fsys[q]]

\* time.ctime(t)
ctime(t) == <<"ctime", t>>
\* datetime.fromtimestamp(t).isoformat()
isoformat(t) == <<"iso", t>>

\* hashlib.<alg>(data).hexdigest(): a digest is determined by the algorithm
\* and the bytes, and differs for different bytes.
hexdigest(alg, data) == [alg |-> alg, of |-> data]

---------------------------------------------------------------------------
(* app.py: get_file_details, get_file_hashes                               *)

get_file_details(fsys, path) ==
    LET file_stats == os_stat(fsys, path)
    IN IF IsRaised(file_stats)
       THEN Str(<<"Error getting file details: ", file_stats.exc>>)
       ELSE Map(   ("Size" :> file_stats.st_size)
                @@ ("Created" :> ctime(file_stats.st_ctime))
                @@ ("Modified" :> ctime(file_stats.st_mtime))
                @@ ("Accessed" :> ctime(file_stats.st_atime))
                @@ ("Permissions" :> <<"oct", file_stats.st_mode>>)
                @@ ("Owner UID" :> file_stats.st_uid)
                @@ ("Group GID" :> file_stats.st_gid))

\* get_file_hashes with the SHA-256 line lost
get_file_hashes_partial(fsys, path) ==
    LET f == ReadBytes(fsys, path)
    IN IF IsRaised(f)
       THEN Str(<<"Error calculating file hashes: ", f.exc>>)
       ELSE Map(   ("MD5" :> hexdigest("md5", f.bytes))
                @@ ("SHA-1" :> hexdigest("sha1", f.bytes)))

get_file_hashes(fsys, path) ==
    LET f == ReadBytes(fsys, path)
    IN IF IsRaised(f)
       THEN Str(<<"Error calculating file hashes: ", f.exc>>)
       ELSE Map(   ("MD5" :> hexdigest("md5", f.bytes))
                @@ ("SHA-1" :> hexdigest("sha1", f.bytes))
                @@ ("SHA-256" :> hexdigest("sha256", f.bytes)))

---------------------------------------------------------------------------
(* The third-party parsers are black boxes: what one finds in a file is an *)
(* input of the model, drawn from the outcomes the calling code tells      *)
(* apart.                                                                  *)
(*   fault   the parser rejects the file and raises                        *)
(*   noapi   PIL opens the image but its class has no _getexif             *)
(*   none    the parser gives nothing back (None, or no parser at all)     *)
(*   empty   parsed, and no metadata object in the file                    *)
(*   bare    parsed, core properties only, no tags                         *)
(*   tagged  parsed, with tags                                             *)
(*   gps     parsed, with tags that include a GPS sub-table                *)
(*   nolib   the optional library is not installed (art.py only)           *)
Shapes == {"fault", "noapi", "none", "empty", "bare", "tagged", "gps"}
CliShapes == Shapes \cup {"nolib"}

\* What a parser of a binary format finds in the bytes: nothing parses from
\* an empty file
Finds(o, bytes) == IF bytes = <<>> THEN "fault" ELSE o

\* PIL.ExifTags.TAGS and GPSTAGS on the tag numbers of the model
TAGS == (271 :> "Make") @@ (34853 :> "GPSInfo")
GPSTAGS == (1 :> "GPSLatitudeRef")

\* image._getexif(): the raw tag table, None (here the empty table, equally
\* falsy) without EXIF
RawExif(o) ==
    CASE o = "tagged" -> (271 :> "make")
      [] o = "gps"    -> (271 :> "make") @@ (34853 :> (1 :> "N"))
      [] OTHER        -> [t \in {} |-> None]

\* Image.open(path) followed by image._getexif(): the image, or the
\* exception raised on the way
OpenImage(fsys, path, o) ==
    LET f == ReadBytes(fsys, path)
    IN IF IsRaised(f) THEN f
       ELSE IF Finds(o, f.bytes) \in {"fault", "none"}
            THEN Raise("UnidentifiedImageError")
       ELSE [size |-> "size", hasexifapi |-> o # "noapi", exif |-> RawExif(o)]

\* app.py lines 50-65, the body of the try
image_metadata_body(fsys, path, o) ==
    LET image == OpenImage(fsys, path, o)
    IN IF IsRaised(image) THEN image
       ELSE IF ~image.hasexifapi THEN Raise("AttributeError")
       ELSE LET exif_data == image.exif
                decodedOf(tag) == TAGS[tag]
                tagOf(name) == CHOOSE tag \in DOMAIN exif_data : TAGS[tag] = name
                tags == [name \in {decodedOf(t) : t \in DOMAIN exif_data} |->
                           IF name = "GPSInfo"
                           THEN LET value == exif_data[tagOf(name)]
                                IN [sub \in {GPSTAGS[g] : g \in DOMAIN value} |->
                                      value[CHOOSE g \in DOMAIN value : GPSTAGS[g] = sub]]
                           ELSE exif_data[tagOf(name)]]
                metadata == ("Resolution" :> image.size) @@ tags
            IN IF DOMAIN metadata # {} THEN Map(metadata)
               ELSE Str(<<"No EXIF metadata found.">>)

\* get_image_metadata without its except clause
get_image_metadata_nocatch(fsys, path, o) == image_metadata_body(fsys, path, o)

get_image_metadata(fsys, path, o) ==
    LET r == image_metadata_body(fsys, path, o)
    IN IF IsRaised(r)
       THEN Str(<<"Error extracting image metadata: ", r.exc>>) ELSE r

\* app.py lines 71-75, the body of the try
video_metadata_body(fsys, path, o) ==
    LET f == ReadBytes(fsys, path)
    IN IF IsRaised(f) THEN Raise("InputStreamError")
       ELSE IF Finds(o, f.bytes) = "fault" THEN Raise("HachoirError")
       ELSE IF o \in {"none", "noapi"} THEN Str(<<"Unable to parse file.">>)
       ELSE IF o = "empty" THEN Str(<<"No metadata found.">>)
       ELSE Map("Metadata" :> "exportDictionary")

get_video_metadata(fsys, path, o) ==
    LET r == video_metadata_body(fsys, path, o)
    IN IF IsRaised(r)
       THEN Str(<<"Error extracting video metadata: ", r.exc>>) ELSE r

\* app.py lines 81-92, the body of the try; pdf.metadata is None for a PDF
\* without an information dictionary, and info.title then raises
document_metadata_body(fsys, path, o) ==
    LET f == ReadBytes(fsys, path)
    IN IF IsRaised(f) THEN f
       ELSE IF Finds(o, f.bytes) \in {"fault", "noapi"} THEN Raise("PdfReadError")
       ELSE IF o \in {"none", "empty"} THEN Raise("AttributeError")
       ELSE Map(   ("Title" :> IF o = "bare" THEN "None" ELSE "title")
                @@ ("Author" :> IF o = "bare" THEN "None" ELSE "author")
                @@ ("Creation Date" :> "creation_date")
                @@ ("Modification Date" :> "mod_date")
                @@ ("Page Count" :> "len(pdf.pages)"))

get_document_metadata(fsys, path, o) ==
    LET r == document_metadata_body(fsys, path, o)
    IN IF IsRaised(r)
       THEN Str(<<"Error extracting document metadata: ", r.exc>>) ELSE r

\* easy_audio.get(key, ["Unknown"])[0]
EasyGet(o, value) == IF o \in {"tagged", "gps"} THEN value ELSE "Unknown"

\* app.py lines 98-110, the body of the try
mp3_metadata_body(fsys, path, o) ==
    LET f == ReadBytes(fsys, path)
    IN IF IsRaised(f) THEN Raise("MutagenError")
       ELSE IF Finds(o, f.bytes) \in {"fault", "none", "noapi"}
            THEN Raise("HeaderNotFoundError")
       ELSE Map(   ("Bitrate" :> "bitrate")
                @@ ("Length" :> "length")
                @@ ("Sample Rate" :> "sample_rate")
                @@ ("Artist" :> EasyGet(o, "artist"))
                @@ ("Album" :> EasyGet(o, "album"))
                @@ ("Title" :> EasyGet(o, "title"))
                @@ ("Track Number" :> EasyGet(o, "tracknumber"))
                @@ ("Genre" :> EasyGet(o, "genre"))
                @@ ("Year" :> EasyGet(o, "date")))

get_mp3_metadata(fsys, path, o) ==
    LET r == mp3_metadata_body(fsys, path, o)
    IN IF IsRaised(r)
       THEN Str(<<"Error extracting MP3 metadata: ", r.exc>>) ELSE r

---------------------------------------------------------------------------
(* mimetypes.guess_type, as called at app.py line 122                      *)

\* The extension table of the standard library, on the extensions of the
\* model.  A MIME type is the pair <<type, subtype>>.
types_map ==
       (<<".", "j", "p", "g">>      :> <<"image", "jpeg">>)
    @@ (<<".", "j", "p", "e", "g">> :> <<"image", "jpeg">>)
    @@ (<<".", "p", "n", "g">>      :> <<"image", "png">>)
    @@ (<<".", "g", "i", "f">>      :> <<"image", "gif">>)
    @@ (<<".", "m", "p", "4">>      :> <<"video", "mp4">>)
    @@ (<<".", "a", "v", "i">>      :> <<"video", "x-msvideo">>)
    @@ (<<".", "m", "p", "3">>      :> <<"audio", "mpeg">>)
    @@ (<<".", "w", "a", "v">>      :> <<"audio", "x-wav">>)
    @@ (<<".", "p", "d", "f">>      :> <<"application", "pdf">>)
    @@ (<<".", "d", "o", "c">>      :> <<"application", "msword">>)
    @@ (<<".", "d", "o", "c", "x">> :>
          <<"application", "vnd.openxmlformats-officedocument.wordprocessingml.document">>)
    @@ (<<".", "h", "t", "m", "l">> :> <<"text", "html">>)
    @@ (<<".", "h", "t", "m">>      :> <<"text", "html">>)
    @@ (<<".", "z", "i", "p">>      :> <<"application", "zip">>)

\* guess_type comparing the extension as written only
guess_type_casesens(path) ==
    LET ext == SplitExt(path)
    IN IF ext \in DOMAIN types_map THEN types_map[ext] ELSE None

\* guess_type(path)[0]: the extension as written, else lower-cased; None
\* when the table has neither
guess_type(path) ==
    LET ext == SplitExt(path)
    IN IF ext \in DOMAIN types_map THEN types_map[ext]
       ELSE IF Lower(ext) \in DOMAIN types_map THEN types_map[Lower(ext)]
       ELSE None

\* The if/elif chain with the audio test written as a prefix test
AppBranch_audioprefix(mime_type) ==
    IF mime_type = None THEN "unknown"
    ELSE IF mime_type[1] = "image" THEN "image"
    ELSE IF mime_type[1] = "video" THEN "video"
    ELSE IF mime_type \in
              {<<"application", "pdf">>, <<"application", "msword">>,
               <<"application", "vnd.openxmlformats-officedocument.wordprocessingml.document">>}
         THEN "document"
    ELSE IF mime_type[1] = "audio" THEN "mp3"
    ELSE "unsupported"

\* app.py lines 123-134: the branch of the if/elif chain that is taken
AppBranch(mime_type) ==
    IF mime_type = None THEN "unknown"
    ELSE IF mime_type[1] = "image" THEN "image"
    ELSE IF mime_type[1] = "video" THEN "video"
    ELSE IF mime_type \in
              {<<"application", "pdf">>, <<"application", "msword">>,
               <<"application", "vnd.openxmlformats-officedocument.wordprocessingml.document">>}
         THEN "document"
    ELSE IF mime_type = <<"audio", "mpeg">> THEN "mp3"
    ELSE "unsupported"

\* Every branch writing its value under the hash section's key
AppKey_clobber(branch) == "File Hashes"

\* The key of the report that each branch writes
AppKey(branch) ==
    CASE branch = "image"    -> "Image Metadata"
      [] branch = "video"    -> "Video Metadata"
      [] branch = "document" -> "Document Metadata"
      [] branch = "mp3"      -> "MP3 Metadata"
      [] OTHER               -> "Type"

\* The value each branch writes: the extractor's return value, or a marker
AppValue(branch, fsys, path, o) ==
    CASE branch = "unknown"     -> Str(<<"Unknown file type.">>)
      [] branch = "image"       -> get_image_metadata(fsys, path, o)
      [] branch = "video"       -> get_video_metadata(fsys, path, o)
      [] branch = "document"    -> get_document_metadata(fsys, path, o)
      [] branch = "mp3"         -> get_mp3_metadata(fsys, path, o)
      [] branch = "unsupported" -> Str(<<"Unsupported file type.">>)

---------------------------------------------------------------------------
(* art.py: the input line, get_file_info, the extractors, generate_hashes  *)

Quotes == {"'", "\""}

RECURSIVE LStripBlanks(_)
LStripBlanks(s) ==
    IF s # <<>> /\ Head(s) = " " THEN LStripBlanks(Tail(s)) ELSE s

RECURSIVE RStripBlanks(_)
RStripBlanks(s) ==
    IF s # <<>> /\ s[Len(s)] = " "
    THEN RStripBlanks(SubSeq(s, 1, Len(s) - 1)) ELSE s

\* art.py lines 105-108: input(...).strip(), then one pair of wrapping
\* quotes of the same kind is taken off
ReadUserInput(typed) ==
    LET user_input == RStripBlanks(LStripBlanks(typed))
    IN IF user_input # <<>>
          /\ \E q \in Quotes : Head(user_input) = q /\ user_input[Len(user_input)] = q
       THEN SubSeq(user_input, 2, Len(user_input) - 1)
       ELSE user_input

\* os.path.basename(p)
basename(p) == SubSeq(p, RFind(p, "/") + 1, Len(p))

CWD == <<"/", "w">>
\* os.path.abspath(p) for the working directory CWD
abspath(p) == IF p # <<>> /\ Head(p) = "/" THEN p ELSE PathJoin(CWD, p)

\* art.py lines 117-127; os.path.getsize and os.stat raise on a missing
\* file and nothing catches it
get_file_info(fsys, filepath) ==
    LET stat == os_stat(fsys, filepath)
    IN IF IsRaised(stat) THEN stat
       ELSE Map(   ("File Name" :> basename(filepath))
                @@ ("File Path" :> abspath(filepath))
                @@ ("Size (bytes)" :> stat.st_size)
                @@ ("File Type" :> SplitExt(filepath))
                @@ ("Creation Date" :> isoformat(stat.st_ctime))
                @@ ("Last Modified Date" :> isoformat(stat.st_mtime))
                @@ ("Last Accessed Date" :> isoformat(stat.st_atime)))

\* metadata["Error"] = str(e)
ErrorDict(e) == Map("Error" :> Str(<<e>>))

\* art.py lines 141-154
extract_pdf_metadata(fsys, filepath, o) ==
    IF o = "nolib" THEN ErrorDict("PyPDF2 not installed.")
    ELSE LET f == ReadBytes(fsys, filepath)
         IN IF IsRaised(f) THEN ErrorDict(f.exc)
            ELSE IF Finds(o, f.bytes) \in {"fault", "noapi"}
                 THEN ErrorDict("PdfReadError")
            ELSE IF o \in {"none", "empty"} THEN Map(EmptyDict)
            ELSE Map(("Producer" :> "producer")
                     @@ IF o = "bare" THEN EmptyDict
                        ELSE ("Title" :> "title") @@ ("Author" :> "author"))

\* art.py lines 156-174
extract_docx_metadata(fsys, filepath, o) ==
    IF o = "nolib" THEN ErrorDict("python-docx not installed.")
    ELSE LET f == ReadBytes(fsys, filepath)
         IN IF IsRaised(f) THEN ErrorDict(f.exc)
            ELSE IF Finds(o, f.bytes) \in {"fault", "noapi", "none"}
                 THEN ErrorDict("PackageNotFoundError")
            ELSE Map(   ("Author" :> EasyGet(o, "author"))
                     @@ ("Title" :> EasyGet(o, "title"))
                     @@ ("Subject" :> EasyGet(o, "subject"))
                     @@ ("Keywords" :> EasyGet(o, "keywords"))
                     @@ ("Software" :> "N/A")
                     @@ ("Revision" :> "revision"))

\* art.py lines 185-204; the EXIF table keeps the GPS entry as it comes
extract_image_metadata(fsys, filepath, o) ==
    IF o = "nolib" THEN ErrorDict("Pillow not installed.")
    ELSE LET img == OpenImage(fsys, filepath, o)
         IN IF IsRaised(img) THEN ErrorDict(img.exc)
            ELSE LET exif == img.exif
                     exif_data == [name \in {TAGS[t] : t \in DOMAIN exif} |->
                                     exif[CHOOSE t \in DOMAIN exif : TAGS[t] = name]]
                 IN Map(   ("Dimensions" :> <<"Width: ", img.size, ", Height: ", img.size>>)
                        @@ ("EXIF" :> IF img.hasexifapi /\ DOMAIN exif # {}
                                      THEN Map(exif_data)
                                      ELSE Str(<<"No EXIF data found.">>)))

\* art.py lines 211-230
extract_av_metadata(fsys, filepath, o) ==
    IF o = "nolib" THEN ErrorDict("mutagen not installed.")
    ELSE LET f == ReadBytes(fsys, filepath)
         IN IF IsRaised(f) THEN ErrorDict(f.exc)
            ELSE IF Finds(o, f.bytes) = "fault" THEN ErrorDict("MutagenError")
            ELSE IF o \in {"none", "noapi"}
                 THEN ErrorDict("Unsupported format or no metadata found.")
            ELSE Map(   (IF o = "empty" THEN EmptyDict
                         ELSE    ("Duration" :> "length")
                              @@ ("Bitrate" :> "bitrate")
                              @@ ("Frame Rate" :> "N/A")
                              @@ ("Resolution" :> "N/A"))
                     @@ (IF o \in {"tagged", "gps"}
                         THEN ("Tags" :> "dict(media.tags)") ELSE EmptyDict))

\* art.py lines 237-258; an empty text decodes and parses, to nothing
extract_html_metadata(fsys, filepath, o) ==
    IF o = "nolib" THEN ErrorDict("beautifulsoup4 not installed.")
    ELSE LET f == ReadBytes(fsys, filepath)
             w == IF IsRaised(f) THEN "fault"
                  ELSE IF f.bytes = <<>> THEN "empty" ELSE o
         IN IF IsRaised(f) THEN ErrorDict(f.exc)
            ELSE IF w \in {"fault", "noapi", "none"} THEN ErrorDict("UnicodeDecodeError")
            ELSE Map(   ("Meta Tags" :> IF w \in {"tagged", "gps"}
                                        THEN ("generator" :> "content") ELSE EmptyDict)
                     @@ ("Title" :> IF w = "empty" THEN "N/A" ELSE "title.string")
                     @@ ("Generator" :> IF w \in {"tagged", "gps"}
                                        THEN "content" ELSE "N/A"))

\* art.py lines 139-264: the branch the lower-cased extension selects
CliBranch(extension) ==
    IF extension \in {<<".", "p", "d", "f">>, <<".", "d", "o", "c", "x">>}
    THEN IF extension = <<".", "p", "d", "f">> THEN "pdf" ELSE "docx"
    ELSE IF extension \in {<<".", "j", "p", "g">>, <<".", "j", "p", "e", "g">>,
                           <<".", "p", "n", "g">>}
    THEN "image"
    ELSE IF extension \in {<<".", "m", "p", "3">>, <<".", "m", "p", "4">>,
                           <<".", "m", "k", "v">>, <<".", "w", "a", "v">>}
    THEN "av"
    ELSE IF extension \in {<<".", "h", "t", "m", "l">>, <<".", "h", "t", "m">>}
    THEN "web"
    ELSE "none"

\* extra_metadata after the dispatch: the extractor's dictionary, or the
\* empty dictionary of line 137 when no branch matches
CliExtra(branch, fsys, filepath, o) ==
    CASE branch = "pdf"   -> extract_pdf_metadata(fsys, filepath, o)
      [] branch = "docx"  -> extract_docx_metadata(fsys, filepath, o)
      [] branch = "image" -> extract_image_metadata(fsys, filepath, o)
      [] branch = "av"    -> extract_av_metadata(fsys, filepath, o)
      [] branch = "web"   -> extract_html_metadata(fsys, filepath, o)
      [] OTHER            -> Map(EmptyDict)

\* art.py lines 271-281
generate_hashes(fsys, filepath) ==
    LET f == ReadBytes(fsys, filepath)
    IN IF IsRaised(f)
       THEN Map(   ("MD5" :> None) @@ ("SHA1" :> None) @@ ("SHA256" :> None)
                @@ ("Error" :> Str(<<f.exc>>)))
       ELSE Map(   ("MD5" :> hexdigest("md5", f.bytes))
                @@ ("SHA1" :> hexdigest("sha1", f.bytes))
                @@ ("SHA256" :> hexdigest("sha256", f.bytes)))

---------------------------------------------------------------------------
(* werkzeug's FileStorage.save at app.py line 148                          *)

\* The upload folder itself: the path os.path.join gives for an empty name
IsDir(path) == path = PathJoin(UPLOAD_FOLDER, <<>>)

\* file.save(path): open(path, "wb") raises on a directory
file_save(fsys, path, data) ==
    IF IsDir(path) THEN Raise("IsADirectoryError")
    ELSE [fs |-> Saved(fsys, path, data)]

\* os.remove(path)
os_remove(fsys, path) ==
    IF ~Exists(fsys, path) THEN Raise("FileNotFoundError")
    ELSE [fs |-> Removed(fsys, path)]

---------------------------------------------------------------------------
(* Inputs of the model                                                     *)

\* Paths handed to extract_metadata and typed at the CLI prompt
DirectPaths ==
    { <<"p", ".", "J", "P", "G">>,        \* photo.JPG
      <<"a", ".", "j", "p", "g">>,
      <<"a", ".", "j", "p", "e", "g">>,
      <<"a", ".", "p", "n", "g">>,
      <<"a", ".", "g", "i", "f">>,
      <<"a", ".", "m", "p", "4">>,
      <<"a", ".", "a", "v", "i">>,
      <<"a", ".", "m", "p", "3">>,
      <<"a", ".", "w", "a", "v">>,
      <<"a", ".", "p", "d", "f">>,
      <<"a", ".", "P", "d", "F">>,
      <<"a", ".", "d", "o", "c">>,
      <<"a", ".", "d", "o", "c", "x">>,
      <<"a", ".", "h", "t", "m", "l">>,
      <<"a", ".", "h", "t", "m">>,
      <<"a", ".", "z", "i", "p">>,        \* archive.zip
      <<"a", ".", "x", "y", "z">>,        \* an extension in no table
      <<"a">>,                            \* no extension
      <<".", "p", "d", "f">>,             \* a dot file: no extension
      <<"d", ".", "d", "/", "a">> }       \* a dot in a directory name only

\* Lines typed at the CLI prompt: the paths as they are, and some wrapped
\* in quotes or blanks
TypedLines ==
    DirectPaths
    \cup { <<"'">> \o <<"a", ".", "p", "d", "f">> \o <<"'">>,
           <<"\"">> \o <<"p", ".", "J", "P", "G">> \o <<"\"">>,
           <<" ">> \o <<"a", ".", "m", "p", "3">> \o <<" ">>,
           <<"'">> \o <<"a", ".", "z", "i", "p">> \o <<"\"">> }

\* Filenames an upload request carries
RawNames ==
    { <<>>,
      <<"a", ".", "j", "p", "g">>,
      <<".", ".", "/", "a", ".", "j", "p", "g">>,
      <<".", ".">>,
      <<"b", ".", "p", "d", "f">> }

NoRequest == [has_file |-> FALSE, filename |-> <<>>, data |-> <<>>]
\* An upload request: whether it has a file part, the filename, the bytes
Requests ==
    {NoRequest} \cup [has_file : {TRUE}, filename : RawNames, data : Contents]

NoFiles == [q \in {} |-> None]

---------------------------------------------------------------------------
(* State                                                                   *)

VARIABLES
    surface,     \* which program runs: "app" (a call of extract_metadata),
                 \* "web" (two upload requests), "cli" (the art.py script)
    fs,          \* the file system
    deletes,     \* deletions by the external owner so far
    pc,          \* where each process is
    request,     \* web: the request each process handles
    typed,       \* cli: the line typed at the prompt
    file_path,   \* file_path / user_input of each process
    metadata,    \* extract_metadata: the report under construction
    result,      \* extract_metadata: the value returned, None before
    response,    \* web: the HTTP response, None before
    cli,         \* cli: file_info, extra_metadata, hashes, report_data
    stages,      \* history: the stages each process has run, in order
    invoked,     \* history: the extractors each process has called
    found,       \* history: what the parser found in the file, "" before
    lost         \* history: the file was deleted under the process after
                 \* its existence check passed and before its last read

vars == <<surface, fs, deletes, pc, request, typed, file_path, metadata,
          result, response, cli, stages, invoked, found, lost>>

NoCli == [file_info |-> None, extra_metadata |-> Map(EmptyDict),
          hashes |-> None, report_data |-> None]

Terminal == {"idle", "returned", "raised", "responded",
             "exit1", "crashed", "cli_done"}

\* Where the existence check has passed and no byte of the file has been
\* read yet
Window == {"em_stat", "em_hash", "cli_info", "cli_extract"}

InitCommon ==
    /\ deletes = 0
    /\ metadata = [p \in Procs |-> EmptyDict]
    /\ result = [p \in Procs |-> None]
    /\ response = [p \in Procs |-> None]
    /\ cli = NoCli
    /\ stages = [p \in Procs |-> <<>>]
    /\ invoked = [p \in Procs |-> {}]
    /\ found = [p \in Procs |-> ""]
    /\ lost = [p \in Procs |-> FALSE]

\* A call extract_metadata(path), the file present (readable or not) or absent
InitApp ==
    /\ surface = "app"
    /\ \E path \in DirectPaths :
         /\ file_path = [p \in Procs |-> IF p = 1 THEN path ELSE <<>>]
         /\ fs \in {NoFiles} \cup {(path :> f) : f \in Files}
    /\ pc = [p \in Procs |-> IF p = 1 THEN "em_exists" ELSE "idle"]
    /\ request = [p \in Procs |-> NoRequest]
    /\ typed = <<>>
    /\ InitCommon

\* The script at its prompt
InitCli ==
    /\ surface = "cli"
    /\ typed \in TypedLines
    /\ fs \in {NoFiles} \cup {(ReadUserInput(typed) :> f) : f \in Files}
    /\ file_path = [p \in Procs |-> <<>>]
    /\ pc = [p \in Procs |-> IF p = 1 THEN "cli_input" ELSE "idle"]
    /\ request = [p \in Procs |-> NoRequest]
    /\ InitCommon

\* Two upload requests arriving at an empty upload folder
InitWeb ==
    /\ surface = "web"
    /\ request \in [Procs -> Requests]
    /\ fs = NoFiles
    /\ file_path = [p \in Procs |-> <<>>]
    /\ pc = [p \in Procs |-> "up_recv"]
    /\ typed = <<>>
    /\ InitCommon

Init == InitApp \/ InitCli \/ InitWeb

---------------------------------------------------------------------------
(* app.py: extract_metadata, one action per stage                          *)

\* Where extract_metadata returns to: upload_file line 154, or the caller
ReturnPc == IF surface = "web" THEN "up_remove" ELSE "returned"

\* An exception leaving extract_metadata: a direct caller sees it, and
\* Flask answers 500 for the request
Propagate(p) ==
    /\ pc' = [pc EXCEPT ![p] = "raised"]
    /\ response' = [response EXCEPT ![p] =
                      IF surface = "web"
                      THEN [status |-> 500, body |-> Str(<<"Internal Server Error">>)]
                      ELSE @]

\* lines 115-118
ExistsCheck(p) ==
    /\ pc[p] = "em_exists"
    /\ IF ~Exists(fs, file_path[p])
       THEN /\ result' = [result EXCEPT ![p] = Str(<<"File does not exist.">>)]
            /\ pc' = [pc EXCEPT ![p] = ReturnPc]
            /\ UNCHANGED metadata
       ELSE /\ metadata' = [metadata EXCEPT ![p] = EmptyDict]
            /\ pc' = [pc EXCEPT ![p] = "em_stat"]
            /\ UNCHANGED result
    /\ UNCHANGED <<surface, fs, deletes, request, typed, file_path, response,
                   cli, stages, invoked, found, lost>>

\* The stat stage handing over to the dispatch, the hash stage left out
StatStage_skiphash(p) ==
    /\ pc[p] = "em_stat"
    /\ stages' = [stages EXCEPT ![p] = Append(@, "Stat")]
    /\ metadata' = [metadata EXCEPT ![p] =
                      ("File Details" :> get_file_details(fs, file_path[p])) @@ @]
    /\ pc' = [pc EXCEPT ![p] = "em_classify"]
    /\ UNCHANGED <<surface, fs, deletes, request, typed, file_path, result,
                   response, cli, invoked, found, lost>>

\* line 119
StatStage(p) ==
    /\ pc[p] = "em_stat"
    /\ stages' = [stages EXCEPT ![p] = Append(@, "Stat")]
    /\ LET v == get_file_details(fs, file_path[p])
       IN IF IsRaised(v)
          THEN Propagate(p) /\ UNCHANGED metadata
          ELSE /\ metadata' = [metadata EXCEPT ![p] = ("File Details" :> v) @@ @]
               /\ pc' = [pc EXCEPT ![p] = "em_hash"]
               /\ UNCHANGED response
    /\ UNCHANGED <<surface, fs, deletes, request, typed, file_path, result,
                   cli, invoked, found, lost>>

\* line 120
HashStage(p) ==
    /\ pc[p] = "em_hash"
    /\ stages' = [stages EXCEPT ![p] = Append(@, "Hash")]
    /\ LET v == get_file_hashes(fs, file_path[p])
       IN IF IsRaised(v)
          THEN Propagate(p) /\ UNCHANGED metadata
          ELSE /\ metadata' = [metadata EXCEPT ![p] = ("File Hashes" :> v) @@ @]
               /\ pc' = [pc EXCEPT ![p] = "em_classify"]
               /\ UNCHANGED response
    /\ UNCHANGED <<surface, fs, deletes, request, typed, file_path, result,
                   cli, invoked, found, lost>>

\* lines 122-136
ClassifyExtract(p) ==
    /\ pc[p] = "em_classify"
    /\ stages' = [stages EXCEPT ![p] = Append(@, "Classify-and-Extract")]
    /\ \E o \in Shapes :
         LET mime_type == guess_type(file_path[p])
             branch == AppBranch(mime_type)
             v == AppValue(branch, fs, file_path[p], o)
         IN /\ invoked' = [invoked EXCEPT ![p] =
                             IF branch \in {"unknown", "unsupported"}
                             THEN @ ELSE @ \cup {branch}]
            /\ found' = [found EXCEPT ![p] = o]
            /\ IF IsRaised(v)
               THEN Propagate(p) /\ UNCHANGED <<metadata, result>>
               ELSE /\ metadata' = [metadata EXCEPT ![p] = (AppKey(branch) :> v) @@ @]
                    /\ result' = [result EXCEPT ![p] = Map(metadata'[p])]
                    /\ pc' = [pc EXCEPT ![p] = ReturnPc]
                    /\ UNCHANGED response
    /\ UNCHANGED <<surface, fs, deletes, request, typed, file_path, cli, lost>>

---------------------------------------------------------------------------
(* app.py: upload_file                                                     *)

Respond(p, status, body) ==
    /\ response' = [response EXCEPT ![p] = [status |-> status, body |-> body]]
    /\ pc' = [pc EXCEPT ![p] = "responded"]

\* lines 140-148: the two checks, the sanitised name, the save
UploadSave(p) ==
    /\ pc[p] = "up_recv"
    /\ IF ~request[p].has_file
       THEN /\ Respond(p, 400, Map("error" :> "No file part in the request"))
            /\ UNCHANGED <<fs, file_path>>
       ELSE IF request[p].filename = <<>>
       THEN /\ Respond(p, 400, Map("error" :> "No file selected"))
            /\ UNCHANGED <<fs, file_path>>
       ELSE LET filename == secure_filename(request[p].filename)
                path == PathJoin(UPLOAD_FOLDER, filename)
                saved == file_save(fs, path, request[p].data)
            IN /\ file_path' = [file_path EXCEPT ![p] = path]
               /\ IF IsRaised(saved)
                  THEN /\ Respond(p, 500, Str(<<"Internal Server Error">>))
                       /\ UNCHANGED fs
                  ELSE /\ fs' = saved.fs
                       /\ pc' = [pc EXCEPT ![p] = "em_exists"]
                       /\ UNCHANGED response
    /\ UNCHANGED <<surface, deletes, request, typed, metadata, result, cli,
                   stages, invoked, found, lost>>

\* lines 154-156: the removal, then the response
UploadRemove(p) ==
    /\ pc[p] = "up_remove"
    /\ LET removed == os_remove(fs, file_path[p])
       IN IF IsRaised(removed)
          THEN /\ Respond(p, 500, Str(<<"Internal Server Error">>))
               /\ UNCHANGED fs
          ELSE /\ fs' = removed.fs
               /\ Respond(p, 200, result[p])
    /\ UNCHANGED <<surface, deletes, request, typed, file_path, metadata,
                   result, cli, stages, invoked, found, lost>>

---------------------------------------------------------------------------
(* art.py: the script, one action per stage                                *)

\* lines 105-112
CliInput ==
    /\ pc[1] = "cli_input"
    /\ LET user_input == ReadUserInput(typed)
       IN /\ file_path' = [file_path EXCEPT ![1] = user_input]
          /\ pc' = [pc EXCEPT ![1] =
                      IF ~Exists(fs, user_input) THEN "exit1" ELSE "cli_info"]
    /\ UNCHANGED <<surface, fs, deletes, request, typed, metadata, result,
                   response, cli, stages, invoked, found, lost>>

\* line 129: an exception here ends the script with a traceback
CliInfo ==
    /\ pc[1] = "cli_info"
    /\ stages' = [stages EXCEPT ![1] = Append(@, "Stat")]
    /\ LET file_info == get_file_info(fs, file_path[1])
       IN IF IsRaised(file_info)
          THEN /\ pc' = [pc EXCEPT ![1] = "crashed"]
               /\ UNCHANGED cli
          ELSE /\ cli' = [cli EXCEPT !.file_info = file_info]
               /\ pc' = [pc EXCEPT ![1] = "cli_extract"]
    /\ UNCHANGED <<surface, fs, deletes, request, typed, file_path, metadata,
                   result, response, invoked, found, lost>>

\* lines 136-264
CliExtract ==
    /\ pc[1] = "cli_extract"
    /\ stages' = [stages EXCEPT ![1] = Append(@, "Classify-and-Extract")]
    /\ \E o \in CliShapes :
         LET extension == Lower(SplitExt(file_path[1]))
             branch == CliBranch(extension)
         IN /\ cli' = [cli EXCEPT !.extra_metadata =
                                     CliExtra(branch, fs, file_path[1], o)]
            /\ invoked' = [invoked EXCEPT ![1] =
                             IF branch = "none" THEN @ ELSE @ \cup {branch}]
            /\ found' = [found EXCEPT ![1] = o]
    /\ pc' = [pc EXCEPT ![1] = "cli_hash"]
    /\ UNCHANGED <<surface, fs, deletes, request, typed, file_path, metadata,
                   result, response, lost>>

\* line 283
CliHash ==
    /\ pc[1] = "cli_hash"
    /\ stages' = [stages EXCEPT ![1] = Append(@, "Hash")]
    /\ cli' = [cli EXCEPT !.hashes = generate_hashes(fs, file_path[1])]
    /\ pc' = [pc EXCEPT ![1] = "cli_report"]
    /\ UNCHANGED <<surface, fs, deletes, request, typed, file_path, metadata,
                   result, response, invoked, found, lost>>

\* lines 290-294; the PDF canvas that renders report_data is outside the model
CliReport ==
    /\ pc[1] = "cli_report"
    /\ cli' = [cli EXCEPT !.report_data =
                 Map(   ("File Information" :> cli.file_info)
                     @@ ("Extra Metadata" :> cli.extra_metadata)
                     @@ ("Hashes" :> cli.hashes))]
    /\ pc' = [pc EXCEPT ![1] = "cli_done"]
    /\ UNCHANGED <<surface, fs, deletes, request, typed, file_path, metadata,
                   result, response, stages, invoked, found, lost>>

---------------------------------------------------------------------------
(* The environment                                                         *)

\* The external owner of a file deletes it while a run is under way
Delete(path) ==
    /\ surface \in {"app", "cli"}
    /\ deletes < MaxDeletes
    /\ pc[1] \notin Terminal
    /\ Exists(fs, path)
    /\ fs' = Removed(fs, path)
    /\ deletes' = deletes + 1
    /\ lost' = [p \in Procs |->
                  lost[p] \/ (pc[p] \in Window /\ file_path[p] = path)]
    /\ UNCHANGED <<surface, pc, request, typed, file_path, metadata, result,
                   response, cli, stages, invoked, found>>

Next ==
    \/ \E p \in Procs : ExistsCheck(p)
    \/ \E p \in Procs : StatStage(p)
    \/ \E p \in Procs : HashStage(p)
    \/ \E p \in Procs : ClassifyExtract(p)
    \/ \E p \in Procs : UploadSave(p)
    \/ \E p \in Procs : UploadRemove(p)
    \/ CliInput
    \/ CliInfo
    \/ CliExtract
    \/ CliHash
    \/ CliReport
    \/ \E path \in DOMAIN fs : Delete(path)

Spec == Init /\ [][Next]_vars

---------------------------------------------------------------------------
(* Properties                                                              *)

DetailFields == {"Size", "Created", "Modified", "Accessed"}
DigestKeys == {"MD5", "SHA-1", "SHA-256"}
CliDigestKeys == {"MD5", "SHA1", "SHA256"}
FormatKeys == {"Image Metadata", "Video Metadata", "Document Metadata",
               "MP3 Metadata", "Type"}
Sections == {"File Details", "File Hashes"}

\* p has taken a step
Stepped(p) == pc'[p] # pc[p]
\* extract_metadata has handed back a report (not the top-level string)
HasReport(p) == IsMap(result[p])
Section(p, k) == result[p].map[k]
\* The CLI script is past its dispatch
CliDispatched == pc[1] \in {"cli_hash", "cli_report", "cli_done"}

IsPrefix(s, t) == Len(s) <= Len(t) /\ s = SubSeq(t, 1, Len(s))

\* The category table of the format classifier
SpecCategory(mime) ==
    IF mime = None THEN "Unknown"
    ELSE IF mime[1] = "image" THEN "Image"
    ELSE IF mime[1] = "video" THEN "Video"
    ELSE IF mime = <<"audio", "mpeg">> THEN "Audio"
    ELSE IF mime \in
              {<<"application", "pdf">>, <<"application", "msword">>,
               <<"application", "vnd.openxmlformats-officedocument.wordprocessingml.document">>}
         THEN "Document"
    ELSE IF mime = <<"text", "html">> THEN "Web"
    ELSE "Unknown"

PhotoJPG == <<"p", ".", "J", "P", "G">>
ArchiveZip == <<"a", ".", "z", "i", "p">>

\* C1: section isolation in extract_metadata.  A path that exists at the
\* existence check enters the pipeline; the stat stage is followed by the
\* hash stage and the hash stage by classify-and-extract whatever the hash
\* read gave; and the step that classifies and extracts, whether the
\* extractor succeeded or failed, returns a report that has a format entry
\* and holds "File Details" and "File Hashes" exactly as the stat and hash
\* stages wrote them.
C1_SectionIsolation ==
    [][\A p \in Procs :
         /\ (pc[p] = "em_exists" /\ Stepped(p) /\ Exists(fs, file_path[p]))
               => pc'[p] = "em_stat"
         /\ (pc[p] = "em_stat" /\ Stepped(p))
               => /\ pc'[p] = "em_hash"
                  /\ "File Details" \in DOMAIN metadata'[p]
         /\ (pc[p] = "em_hash" /\ Stepped(p))
               => /\ pc'[p] = "em_classify"
                  /\ Sections \subseteq DOMAIN metadata'[p]
                  /\ metadata'[p]["File Details"] = metadata[p]["File Details"]
         /\ (pc[p] = "em_classify" /\ Stepped(p))
               => /\ pc'[p] \in {"returned", "up_remove"}
                  /\ IsMap(result'[p])
                  /\ \A k \in Sections :
                       /\ k \in Keys(result'[p])
                       /\ result'[p].map[k] = metadata[p][k]
                  /\ \E k \in FormatKeys : k \in Keys(result'[p])
      ]_vars

\* C1's case: a report whose hash read failed and whose extractor failed,
\* with the stat section intact
C1_Witness ==
    \E p \in Procs :
        /\ pc[p] = "returned" /\ HasReport(p)
        /\ IsMap(Section(p, "File Details"))
        /\ IsStr(Section(p, "File Hashes"))
        /\ "Image Metadata" \in Keys(result[p])
        /\ IsStr(Section(p, "Image Metadata"))

\* C2 as stated: every report on a file that existed holds Size, the three
\* timestamps and the three digests as values, also when the stat or the
\* hash read failed (app.py), and generate_hashes gives three digests
\* (art.py).
C2_AlwaysAllFields ==
    /\ \A p \in Procs :
         HasReport(p) =>
            /\ IsMap(Section(p, "File Details"))
            /\ DetailFields \subseteq Keys(Section(p, "File Details"))
            /\ IsMap(Section(p, "File Hashes"))
            /\ DigestKeys \subseteq Keys(Section(p, "File Hashes"))
    /\ cli.hashes # None =>
         \A k \in CliDigestKeys : cli.hashes.map[k] # None

\* C2 amended: the stat stage writes Size (the byte count) and the three
\* timestamps when the file is there and an error string when it is not;
\* the hash stage writes the three digests of the file's bytes when the
\* read succeeds and an error string when it fails; the report returns
\* both as written; generate_hashes of art.py always has the three digest
\* keys, the digests of the bytes when the read succeeds, None together
\* with an "Error" entry when it fails.
C2_FieldsWhenReadable ==
    [][/\ \A p \in Procs :
            LET path == file_path[p]
                there == Exists(fs, path)
            IN /\ (pc[p] = "em_stat" /\ pc'[p] = "em_hash") =>
                     LET d == metadata'[p]["File Details"]
                     IN IF there
                        THEN /\ IsMap(d)
                             /\ DetailFields \subseteq Keys(d)
                             /\ d.map["Size"] = Len(fs[path].data)
                        ELSE IsStr(d)
               /\ (pc[p] = "em_hash" /\ pc'[p] = "em_classify") =>
                     LET h == metadata'[p]["File Hashes"]
                     IN IF there /\ fs[path].readable
                        THEN /\ IsMap(h)
                             /\ Keys(h) = DigestKeys
                             /\ \A k \in DigestKeys : h.map[k].of = fs[path].data
                        ELSE IsStr(h)
               /\ (pc[p] = "em_classify" /\ IsMap(result'[p])) =>
                     \A k \in Sections : result'[p].map[k] = metadata[p][k]
       /\ (pc[1] = "cli_hash" /\ pc'[1] = "cli_report") =>
            LET h == cli'.hashes
                path == file_path[1]
            IN /\ CliDigestKeys \subseteq Keys(h)
               /\ IF Exists(fs, path) /\ fs[path].readable
                  THEN /\ \A k \in CliDigestKeys :
                            h.map[k] # None /\ h.map[k].of = fs[path].data
                       /\ "Error" \notin Keys(h)
                  ELSE /\ \A k \in CliDigestKeys : h.map[k] = None
                       /\ "Error" \in Keys(h)
      ]_vars

\* C2's case: a file that is there throughout and cannot be read, so the
\* report has the stat fields and no digest
C2_Witness ==
    \E p \in Procs :
        /\ surface = "app" /\ deletes = 0 /\ HasReport(p)
        /\ Exists(fs, file_path[p]) /\ ~fs[file_path[p]].readable
        /\ DetailFields \subseteq Keys(Section(p, "File Details"))
        /\ IsStr(Section(p, "File Hashes"))

\* C3: extract_metadata never raises.  No call ends in an exception, and a
\* call that has ended has returned a value: the top-level string or the
\* report.
C3_NeverRaises ==
    \A p \in Procs :
        /\ pc[p] # "raised"
        /\ pc[p] \in {"returned", "up_remove"} =>
              IsStr(result[p]) \/ IsMap(result[p])

\* C3's case: the stat failed, the hash read failed and the selected
\* extractor's parser faulted, and a report came back
C3_Witness ==
    \E p \in Procs :
        /\ pc[p] = "returned" /\ HasReport(p)
        /\ IsStr(Section(p, "File Details"))
        /\ IsStr(Section(p, "File Hashes"))
        /\ \E k \in FormatKeys \ {"Type"} :
              k \in Keys(result[p]) /\ IsStr(Section(p, k))

\* C4 as stated: when the file is deleted after the existence check and
\* before its bytes are read, the run ends in a top-level file-access
\* error: extract_metadata returns no report, the CLI script assembles no
\* report, and the process does not crash.
C4_DeletionIsTopLevelError ==
    \A p \in Procs :
        lost[p] =>
           /\ pc[p] = "returned" => IsStr(result[p])
           /\ pc[p] \notin {"crashed", "cli_done"}

\* C5 as stated, for extract_metadata: when the classifier's table gives
\* Unknown, no extractor is invoked and the report records the one marker
\* "unsupported file type", the same for an extension without MIME type
\* and for a MIME type outside the table.
C5_OneUnsupportedMarker ==
    \A p \in Procs :
        (HasReport(p) /\ SpecCategory(guess_type(file_path[p])) = "Unknown") =>
           /\ invoked[p] = {}
           /\ "Type" \in Keys(result[p])
           /\ Section(p, "Type") = Str(<<"Unsupported file type.">>)

\* The extensions art.py's dispatch lists
CliListed ==
    { <<".", "p", "d", "f">>, <<".", "d", "o", "c", "x">>,
      <<".", "j", "p", "g">>, <<".", "j", "p", "e", "g">>, <<".", "p", "n", "g">>,
      <<".", "m", "p", "3">>, <<".", "m", "p", "4">>, <<".", "m", "k", "v">>,
      <<".", "w", "a", "v">>,
      <<".", "h", "t", "m", "l">>, <<".", "h", "t", "m">> }

\* C5 amended: in app.py, when the table gives Unknown no extractor is
\* invoked and the report records under "Type" one of two markers,
\* "Unknown file type." for an extension without MIME type and
\* "Unsupported file type." for a MIME type outside the table.  In art.py,
\* an extension in none of its lists invokes no extractor and leaves Extra
\* Metadata the empty mapping, with no marker recorded; .wav, whose MIME
\* type is outside the table, goes to the audio/video extractor.
C5_TwoMarkers ==
    /\ \A p \in Procs :
         (HasReport(p) /\ SpecCategory(guess_type(file_path[p])) = "Unknown") =>
            /\ invoked[p] = {}
            /\ "Type" \in Keys(result[p])
            /\ Section(p, "Type") =
                 IF guess_type(file_path[p]) = None
                 THEN Str(<<"Unknown file type.">>)
                 ELSE Str(<<"Unsupported file type.">>)
    /\ (surface = "cli" /\ CliDispatched) =>
         LET ext == Lower(SplitExt(file_path[1]))
         IN /\ ext \notin CliListed =>
                 invoked[1] = {} /\ cli.extra_metadata = Map(EmptyDict)
            /\ ext = <<".", "w", "a", "v">> => invoked[1] = {"av"}

\* C5's case: a report on a path whose extension has no MIME type
C5_Witness ==
    \E p \in Procs :
        /\ HasReport(p)
        /\ guess_type(file_path[p]) = None
        /\ "Type" \in Keys(result[p])
        /\ Section(p, "Type") = Str(<<"Unknown file type.">>)

\* The extractor of each category, in app.py and in art.py
AppExtractor(category) ==
    CASE category = "Image"    -> {"image"}
      [] category = "Video"    -> {"video"}
      [] category = "Audio"    -> {"mp3"}
      [] category = "Document" -> {"document"}
      [] category = "Web"      -> {"web"}
      [] OTHER                 -> {}

CliExtractors(category) ==
    CASE category = "Image"    -> {{"image"}}
      [] category = "Video"    -> {{"av"}}
      [] category = "Audio"    -> {{"av"}}
      [] category = "Document" -> {{"pdf"}, {"docx"}}
      [] category = "Web"      -> {{"web"}}
      [] OTHER                 -> {{}}

\* C6 as stated: both dispatches select the extractor of the category the
\* table gives for the path.
C6_DispatchFollowsTable ==
    /\ \A p \in Procs :
         HasReport(p) =>
            invoked[p] = AppExtractor(SpecCategory(guess_type(file_path[p])))
    /\ (surface = "cli" /\ CliDispatched) =>
         invoked[1] \in CliExtractors(SpecCategory(guess_type(file_path[1])))

\* C6 amended: app.py selects the extractor of the table's category for
\* Image, Video, Audio and Document and none for Web (text/html) and
\* Unknown; art.py selects by the lower-cased extension: .pdf and .docx the
\* document extractors, .jpg .jpeg .png the image extractor, .mp3 .mp4 .mkv
\* .wav the audio/video extractor, .html .htm the web extractor, anything
\* else none.  The extension is compared case-insensitively in both:
\* photo.JPG goes to the image extractor and archive.zip to none.
C6_DispatchPerSurface ==
    /\ \A p \in Procs :
         HasReport(p) =>
            LET category == SpecCategory(guess_type(file_path[p]))
            IN /\ invoked[p] = IF category = "Web" THEN {}
                               ELSE AppExtractor(category)
               /\ Cardinality(Keys(result[p]) \cap FormatKeys) = 1
               /\ file_path[p] = PhotoJPG =>
                     invoked[p] = {"image"} /\ "Image Metadata" \in Keys(result[p])
               /\ file_path[p] = ArchiveZip => invoked[p] = {}
    /\ (surface = "cli" /\ CliDispatched) =>
         LET ext == Lower(SplitExt(file_path[1]))
         IN /\ invoked[1] =
                 IF ext = <<".", "p", "d", "f">> THEN {"pdf"}
                 ELSE IF ext = <<".", "d", "o", "c", "x">> THEN {"docx"}
                 ELSE IF ext \in {<<".", "j", "p", "g">>, <<".", "j", "p", "e", "g">>,
                                  <<".", "p", "n", "g">>} THEN {"image"}
                 ELSE IF ext \in {<<".", "m", "p", "3">>, <<".", "m", "p", "4">>,
                                  <<".", "m", "k", "v">>, <<".", "w", "a", "v">>}
                      THEN {"av"}
                 ELSE IF ext \in {<<".", "h", "t", "m", "l">>, <<".", "h", "t", "m">>}
                      THEN {"web"}
                 ELSE {}
            /\ file_path[1] = PhotoJPG => invoked[1] = {"image"}
            /\ file_path[1] = ArchiveZip => invoked[1] = {}

\* C6's case: photo.JPG dispatched to the image extractor by app.py
C6_Witness ==
    \E p \in Procs :
        /\ HasReport(p)
        /\ file_path[p] = PhotoJPG
        /\ invoked[p] = {"image"}

\* C7 as stated: the upload endpoint answers 400 exactly when the request
\* has no file part or an empty filename, and 200 with the report in every
\* other case.
C7_Only400Or200 ==
    \A p \in Procs :
        (surface = "web" /\ pc[p] \in {"responded", "raised"}) =>
           LET rejected == ~request[p].has_file \/ request[p].filename = <<>>
           IN /\ response[p].status = 400 <=> rejected
              /\ ~rejected =>
                    /\ response[p].status = 200
                    /\ result[p] # None
                    /\ response[p].body = result[p]

\* What the parser found when an image opens and _getexif() gives no tag
\* data
NoTagShapes == {"empty", "bare"}

\* The explicit "no tag data" marker, as the value returned or as the
\* value of the tag entry
NoTagMarker(v) ==
    \/ v = Str(<<"No EXIF metadata found.">>)
    \/ /\ IsMap(v)
       /\ "EXIF" \in Keys(v)
       /\ v.map["EXIF"] = Str(<<"No EXIF data found.">>)

\* C8 as stated: the image extractor, given an image that opens and has no
\* tag metadata, returns the explicit "no tag data" marker.
C8_NoTagMarker ==
    /\ \A p \in Procs :
         (/\ surface = "app" /\ deletes = 0 /\ HasReport(p)
          /\ Exists(fs, file_path[p]) /\ fs[file_path[p]].readable
          /\ fs[file_path[p]].data # <<>>
          /\ "Image Metadata" \in Keys(result[p])
          /\ found[p] \in NoTagShapes)
         => NoTagMarker(Section(p, "Image Metadata"))
    /\ (/\ surface = "cli" /\ deletes = 0 /\ CliDispatched
        /\ Exists(fs, file_path[1]) /\ fs[file_path[1]].readable
        /\ fs[file_path[1]].data # <<>>
        /\ invoked[1] = {"image"}
        /\ found[1] \in NoTagShapes)
       => NoTagMarker(cli.extra_metadata)

AppOrder == <<"Stat", "Hash", "Classify-and-Extract">>
CliOrder == <<"Stat", "Classify-and-Extract", "Hash">>

\* C9 as stated: every run, of extract_metadata and of the CLI script,
\* runs its stages in the order Stat, Hash, Classify-and-Extract.
C9_OneOrder ==
    \A p \in Procs : IsPrefix(stages[p], AppOrder)

\* C9 amended: every run executes each stage at most once and never
\* returns to an earlier one; extract_metadata runs Stat, Hash,
\* Classify-and-Extract, and the CLI script runs Stat, Classify-and-Extract,
\* Hash.
C9_OrderPerSurface ==
    \A p \in Procs :
        /\ IsPrefix(stages[p], IF surface = "cli" THEN CliOrder ELSE AppOrder)
        /\ pc[p] \in {"returned", "up_remove"} /\ HasReport(p) => stages[p] = AppOrder
        /\ pc[p] = "cli_done" => stages[p] = CliOrder

\* C9's case: a CLI run that has run all three stages and an
\* extract_metadata run likewise exist; here the CLI one
C9_Witness ==
    /\ pc[1] = "cli_done"
    /\ stages[1] = CliOrder

\* A request that carries a file under a name that survives sanitising
ValidUpload(p) ==
    /\ request[p].has_file
    /\ secure_filename(request[p].filename) # <<>>

\* C10 as stated: when two upload requests that each carry a file have
\* finished, under any interleaving and also with equal sanitised
\* filenames, each has answered 200 with the report of its own bytes and
\* the upload folder holds no uploaded file.
C10_RequestsIsolated ==
    (/\ surface = "web"
     /\ \A p \in Procs : pc[p] \in {"responded", "raised"} /\ ValidUpload(p))
    => /\ \A p \in Procs :
            /\ response[p].status = 200
            /\ IsMap(response[p].body)
            /\ IsMap(response[p].body.map["File Hashes"])
            /\ \A k \in DigestKeys :
                  response[p].body.map["File Hashes"].map[k].of = request[p].data
       /\ fs = NoFiles

===========================================================================
